---------------------------- MODULE Spec2Model ----------------------------
(***************************************************************************)
(* Bauble's scanner (bauble/bauble_lexer.py, bauble/tokens.py) and its     *)
(* Pratt expression parser (bauble/bauble_parser.py, bauble/bauble_ast.py).*)
(*                                                                         *)
(* A Python str is a sequence of one-character strings.  A method of the   *)
(* Lexer takes the Lexer object (a record of its attributes) as `self` and *)
(* returns the object after the call together with the value returned; an  *)
(* exception that leaves the method is the field `raised`.                 *)
(***************************************************************************)
EXTENDS Integers, Sequences, FiniteSets, TLC

VARIABLES
    source,     \* the source string handed to Lexer(source) / Parser(source, _)
    pc,         \* "new": not constructed, "ready": constructed, "done": the
                \* parse returned, "consumed": consume() returned,
                \* "raised": an exception left the last call
    lexer,      \* the Lexer object: source, position, line, column, next
    tokens,     \* the tokens next_token() has returned, in call order
    spans,      \* per lex_token() call so far: position before and after it
    result,     \* what the top-level parse_expression() returned
    stderr,     \* the diagnostics emit_error() has printed, in order
    exception,  \* the exception that left the last call ("" if none)
    expected_kind   \* the kind handed to Parser.consume() ("" before the call)

vars == <<source, pc, lexer, tokens, spans, result, stderr, exception, expected_kind>>

---------------------------------------------------------------------------
(* Python values *)

\* None where a character is expected (Optional[str] of advance/peek).
None == "None"

\* None where a string is expected (Optional[str] of create_token/Token).
NoneStr == <<None>>

\* str.isnumeric on the characters the model draws from.
isnumeric(char) == char \in {"0", "1", "2", "3", "4", "5", "6", "7", "8", "9"}

\* str.isidentifier on a one-character string of the model's characters.
isidentifier(char) ==
    char \in {"a", "b", "c", "d", "e", "f", "g", "h", "i", "j", "k", "l", "m",
              "n", "o", "p", "q", "r", "s", "t", "u", "v", "w", "x", "y", "z",
              "_"}

---------------------------------------------------------------------------
(* bauble/tokens.py *)

\* TokenKind: the member's name is the kind, KindValue its value.
KindValue(kind) ==
    CASE kind = "OPEN_PAREN" -> <<"(">>
      [] kind = "CLOSE_PAREN" -> <<")">>
      [] kind = "OPEN_BRACKET" -> <<"[">>
      [] kind = "CLOSE_BRACKET" -> <<"]">>
      [] kind = "OPEN_BRACE" -> <<"{">>
      [] kind = "CLOSE_BRACE" -> <<"}">>
      [] kind = "COMMA" -> <<",">>
      [] kind = "DOT" -> <<".">>
      [] kind = "SEMICOLON" -> <<";">>
      [] kind = "EQUAL" -> <<"=">>
      [] kind = "EQUAL_EQUAL" -> <<"=", "=">>
      [] kind = "BANG" -> <<"!">>
      [] kind = "BANG_EQUAL" -> <<"!", "=">>
      [] kind = "GREATER" -> <<">">>
      [] kind = "GREATER_EQUAL" -> <<">", "=">>
      [] kind = "LESS" -> <<"<">>
      [] kind = "LESS_EQUAL" -> <<"<", "=">>
      [] kind = "PLUS" -> <<"+">>
      [] kind = "MINUS" -> <<"-">>
      [] kind = "STAR" -> <<"*">>
      [] kind = "SLASH" -> <<"/">>
      [] kind = "INTEGER" -> <<"I", "N", "T", "E", "G", "E", "R">>
      [] kind = "STRING" -> <<"S", "T", "R", "I", "N", "G">>
      [] kind = "FLOAT" -> <<"F", "L", "O", "T">>
      [] kind = "IDENT" -> <<"I", "D", "E", "N", "T", "I", "F", "I", "E", "R">>
      [] kind = "AND" -> <<"a", "n", "d">>
      [] kind = "CLASS" -> <<"c", "l", "a", "s", "s">>
      [] kind = "ELSE" -> <<"e", "l", "s", "e">>
      [] kind = "FALSE" -> <<"f", "a", "l", "s", "e">>
      [] kind = "FOR" -> <<"f", "o", "r">>
      [] kind = "FN" -> <<"f", "n">>
      [] kind = "IF" -> <<"i", "f">>
      [] kind = "IMPORT" -> <<"i", "m", "p", "o", "r", "t">>
      [] kind = "LET" -> <<"l", "e", "t">>
      [] kind = "NONE" -> <<"n", "o", "n", "e">>
      [] kind = "OR" -> <<"o", "r">>
      [] kind = "RETURN" -> <<"r", "e", "t", "u", "r", "n">>
      [] kind = "TRUE" -> <<"t", "r", "u", "e">>
      [] kind = "WHILE" -> <<"w", "h", "i", "l", "e">>
      [] kind = "ERROR" -> <<"e", "r", "r", "o", "r">>
      [] kind = "EOF" -> <<"E", "n", "d", " ", "o", "f", " ", "F", "i", "l", "e">>

\* Position = namedtuple("Position", "line column")
Position(line, column) == [line |-> line, column |-> column]

\* Token.__init__: `value or kind.value` takes kind.value for None and for "".
Token(kind, position, value) ==
    [kind |-> kind,
     value |-> IF value = NoneStr \/ value = <<>> THEN KindValue(kind) ELSE value,
     position |-> position]

\* Lexer.next before lex_token() has returned in __init__.
NoToken == [kind |-> "None", value |-> <<>>, position |-> Position(0, 0)]

---------------------------------------------------------------------------
(* bauble/bauble_lexer.py *)

KeywordKinds ==
    {"AND", "CLASS", "ELSE", "FALSE", "FOR", "FN", "IF", "IMPORT", "LET",
     "NONE", "OR", "RETURN", "TRUE", "WHILE"}

\* KEYWORDS.get(value, TokenKind.IDENT): every keyword's text is its kind's value.
KEYWORDS_get(value) ==
    IF \E k \in KeywordKinds : KindValue(k) = value
    THEN CHOOSE k \in KeywordKinds : KindValue(k) = value
    ELSE "IDENT"

is_whitespace(char) == char \in {" ", "\t", "\n", "\r"}

UnterminatedMessage ==
    <<"U", "n", "t", "e", "r", "m", "i", "n", "a", "t", "e", "d", " ", "s", "t",
      "r", "i", "n", "g", " ", "l", "i", "t", "e", "r", "a", "l", ",", " ", "e",
      "x", "p", "e", "c", "t", "e", "d", " ", "t", "o", " ", "f", "i", "n", "d",
      " ", "c", "l", "o", "s", "i", "n", "g", " ", "q", "u", "o", "t", "e", ",",
      " ", "i", "n", "s", "t", "e", "a", "d", " ", "f", "o", "u", "n", "d", " ",
      "E", "O", "F", " ", "(", "E", "n", "d", " ", "o", "f", " ", "F", "i", "l",
      "e", ")">>

\* f"Unknown character {next_char} found"
UnknownMessage(char) ==
    <<"U", "n", "k", "n", "o", "w", "n", " ", "c", "h", "a", "r", "a", "c", "t",
      "e", "r", " ">> \o <<char>> \o <<" ", "f", "o", "u", "n", "d">>

\* `LET name == value IN In(name)` with value computed once.
Let(value, In(_)) == In(value)

\* Lexer.advance: source[position] is the model's source[position + 1].
advance(self) ==
    IF self.position >= Len(self.source)
    THEN [self |-> self, ret |-> None]
    ELSE Let(self.source[self.position + 1], LAMBDA next_char :
         [self |-> [self EXCEPT
                      !.line = IF next_char = "\n" THEN @ + 1 ELSE @,
                      !.column = IF next_char = "\n" THEN 1 ELSE @,
                      !.position = @ + 1],
          ret |-> next_char])

\* Lexer.peek
peek(self) ==
    IF self.position >= Len(self.source)
    THEN None
    ELSE self.source[self.position + 1]

\* Lexer.consume that reports the match and leaves the character unread.
consume_NoAdvance(self, expected) ==
    IF peek(self) = expected
    THEN [self |-> self, ret |-> TRUE]
    ELSE [self |-> self, ret |-> FALSE]

\* Lexer.consume
consume(self, expected) ==
    IF peek(self) = expected
    THEN [self |-> advance(self).self, ret |-> TRUE]
    ELSE [self |-> self, ret |-> FALSE]

\* Lexer.at_end
at_end(self) == peek(self) = None

\* Lexer.create_token
create_token(self, kind, value) ==
    Token(kind, Position(self.line, self.column), value)

\* The while loop of lex_string.
RECURSIVE lex_string_loop(_, _)
lex_string_loop(self, value) ==
    IF peek(self) # "\"" /\ ~at_end(self)
    THEN Let(advance(self), LAMBDA a :
         lex_string_loop(a.self, value \o <<a.ret>>))
    ELSE [self |-> self, value |-> value]

\* Lexer.lex_string without the end-of-input test after the loop.
lex_string_NoEofCheck(self) ==
    Let(lex_string_loop(self, <<>>), LAMBDA l :
    Let(advance(l.self).self, LAMBDA s :
        [self |-> s, ret |-> create_token(s, "STRING", l.value)]))

\* Lexer.lex_string
lex_string(self) ==
    Let(lex_string_loop(self, <<>>), LAMBDA l :
        IF at_end(l.self)
        THEN [self |-> l.self,
              ret |-> create_token(l.self, "ERROR", UnterminatedMessage)]
        ELSE Let(advance(l.self).self, LAMBDA s :
             [self |-> s, ret |-> create_token(s, "STRING", l.value)]))

\* The two while loops of lex_number.
RECURSIVE lex_number_loop(_, _)
lex_number_loop(self, value) ==
    IF ~at_end(self) /\ isnumeric(peek(self))
    THEN Let(advance(self), LAMBDA a :
         lex_number_loop(a.self, value \o <<a.ret>>))
    ELSE [self |-> self, value |-> value]

\* Lexer.lex_number
lex_number(self, first_char) ==
    Let(lex_number_loop(self, <<first_char>>), LAMBDA l :
        IF peek(l.self) = "."
        THEN Let(advance(l.self), LAMBDA a :
             Let(lex_number_loop(a.self, l.value \o <<a.ret>>), LAMBDA m :
                 [self |-> m.self, ret |-> create_token(m.self, "FLOAT", m.value)]))
        ELSE [self |-> l.self, ret |-> create_token(l.self, "INTEGER", l.value)])

\* The while loop of lex_identifier.
RECURSIVE lex_identifier_loop(_, _)
lex_identifier_loop(self, value) ==
    IF ~at_end(self) /\ isidentifier(peek(self))
    THEN Let(advance(self), LAMBDA a :
         lex_identifier_loop(a.self, value \o <<a.ret>>))
    ELSE [self |-> self, value |-> value]

\* Lexer.lex_identifier
lex_identifier(self, first_char) ==
    Let(lex_identifier_loop(self, <<first_char>>), LAMBDA l :
        [self |-> l.self,
         ret |-> create_token(l.self, KEYWORDS_get(l.value), l.value)])

\* lex_token, `while is_whitespace(next_char)`: is_whitespace(None) is False.
RECURSIVE skip_whitespace(_, _)
skip_whitespace(self, next_char) ==
    IF is_whitespace(next_char)
    THEN Let(advance(self), LAMBDA a : skip_whitespace(a.self, a.ret))
    ELSE [self |-> self, ret |-> next_char]

\* lex_token, the inner loop of `# Handle comments`.
RECURSIVE skip_comment(_)
skip_comment(self) ==
    IF peek(self) # "\n" /\ ~at_end(self)
    THEN skip_comment(advance(self).self)
    ELSE self

SingleCharKinds ==
    {"OPEN_PAREN", "CLOSE_PAREN", "OPEN_BRACKET", "CLOSE_BRACKET", "OPEN_BRACE",
     "CLOSE_BRACE", "COMMA", "DOT", "SEMICOLON"}

OneCharOperatorKinds == {"PLUS", "MINUS", "STAR", "SLASH"}

\* The four `Two character operators` branches: the kind when `=` follows.
TwoCharKind(char) ==
    CASE char = "=" -> "EQUAL_EQUAL"
      [] char = "!" -> "BANG_EQUAL"
      [] char = ">" -> "GREATER_EQUAL"
      [] char = "<" -> "LESS_EQUAL"

\* The four `Two character operators` branches: the kind otherwise.
OneCharKind(char) ==
    CASE char = "=" -> "EQUAL"
      [] char = "!" -> "BANG"
      [] char = ">" -> "GREATER"
      [] char = "<" -> "LESS"

\* The kind among `kinds` whose value is the single character `char`.
KindOfChar(kinds, char) == CHOOSE k \in kinds : KindValue(k) = <<char>>

Returned(self, token) == [self |-> self, ret |-> token, raised |-> ""]

Raised(self, name) == [self |-> self, ret |-> NoToken, raised |-> name]

\* lex_token from `# Single character tokens` on: the if/elif chain over
\* next_char.  None has no isnumeric: next_char.isnumeric() raises
\* AttributeError when the whitespace loop ran into the end of the source.
lex_token_dispatch(self, next_char) ==
    IF \E k \in SingleCharKinds : KindValue(k) = <<next_char>>
    THEN Returned(self, create_token(self, KindOfChar(SingleCharKinds, next_char),
                                     NoneStr))
    ELSE IF next_char \in {"=", "!", ">", "<"}
    THEN Let(consume(self, "="), LAMBDA c :
         IF c.ret
         THEN Returned(c.self, create_token(c.self, TwoCharKind(next_char), NoneStr))
         ELSE Returned(c.self, create_token(c.self, OneCharKind(next_char), NoneStr)))
    ELSE IF \E k \in OneCharOperatorKinds : KindValue(k) = <<next_char>>
    THEN Returned(self, create_token(self, KindOfChar(OneCharOperatorKinds, next_char),
                                     NoneStr))
    ELSE IF next_char = "\""
    THEN Let(lex_string(self), LAMBDA r : Returned(r.self, r.ret))
    ELSE IF next_char = None
    THEN Raised(self, "AttributeError")
    ELSE IF isnumeric(next_char)
    THEN Let(lex_number(self, next_char), LAMBDA r : Returned(r.self, r.ret))
    ELSE IF isidentifier(next_char)
    THEN Let(lex_identifier(self, next_char), LAMBDA r : Returned(r.self, r.ret))
    ELSE Returned(self, create_token(self, "ERROR", UnknownMessage(next_char)))

\* Lexer.lex_token up to and including `# Handle comments`, then the chain.
lex_token(self) ==
    Let(advance(self), LAMBDA a :
        IF a.ret = None
        THEN Returned(a.self, create_token(a.self, "EOF", NoneStr))
        ELSE Let(skip_whitespace(a.self, a.ret), LAMBDA w :
             lex_token_dispatch(IF w.ret = "/" /\ peek(w.self) = "/"
                                THEN skip_comment(w.self)
                                ELSE w.self,
                                w.ret)))

\* Lexer.next_token that returns the token it has just lexed.
next_token_ReturnsNew(self) ==
    Let(lex_token(self), LAMBDA r :
        IF r.raised # ""
        THEN [self |-> r.self, ret |-> NoToken, raised |-> r.raised]
        ELSE [self |-> [r.self EXCEPT !.next = r.ret],
              ret |-> r.ret, raised |-> ""])

\* Lexer.next_token: when lex_token raises, self.next is not assigned.
next_token(self) ==
    Let(self.next, LAMBDA current :
    Let(lex_token(self), LAMBDA r :
        IF r.raised # ""
        THEN [self |-> r.self, ret |-> NoToken, raised |-> r.raised]
        ELSE [self |-> [r.self EXCEPT !.next = r.ret],
              ret |-> current, raised |-> ""]))

\* Lexer.__init__
Lexer(src) ==
    Let(lex_token([source |-> src, position |-> 0, line |-> 1, column |-> 1,
                   next |-> NoToken]), LAMBDA r :
        IF r.raised # ""
        THEN [self |-> r.self, raised |-> r.raised]
        ELSE [self |-> [r.self EXCEPT !.next = r.ret], raised |-> ""])

---------------------------------------------------------------------------
(* bauble/bauble_ast.py: the expression nodes the parser builds *)

\* int(text) for a text of decimal digits.
RECURSIVE int(_)
int(text) ==
    IF text = <<>>
    THEN 0
    ELSE 10 * int(SubSeq(text, 1, Len(text) - 1))
         + (CHOOSE d \in 0..9 :
              <<"0", "1", "2", "3", "4", "5", "6", "7", "8", "9">>[d + 1]
                  = text[Len(text)])

\* Index of the `.` of a FLOAT token's text (lex_number puts exactly one in).
DotIndex(text) == CHOOSE i \in DOMAIN text : text[i] = "."

\* text without its trailing "0" characters.
RECURSIVE StripZeros(_)
StripZeros(text) ==
    IF text # <<>> /\ text[Len(text)] = "0"
    THEN StripZeros(SubSeq(text, 1, Len(text) - 1))
    ELSE text

\* A Literal's value.  An int is its number; a float is its integer part and
\* the digits of its fraction (float("1.50") == float("1.5")); a str is its
\* characters.
IntValue(text) == [type |-> "int", int |-> int(text), text |-> <<>>]

FloatValue(text) ==
    [type |-> "float",
     int |-> int(SubSeq(text, 1, DotIndex(text) - 1)),
     text |-> StripZeros(SubSeq(text, DotIndex(text) + 1, Len(text)))]

StrValue(text) == [type |-> "str", int |-> 0, text |-> text]

Literal(value, position) ==
    [node |-> "Literal", value |-> value, position |-> position]

BinOp(op, lhs, rhs, position) ==
    [node |-> "BinOp", op |-> op, lhs |-> lhs, rhs |-> rhs, position |-> position]

UnaryOp(op, rhs, position) ==
    [node |-> "UnaryOp", op |-> op, rhs |-> rhs, position |-> position]

Identifier(name, position) ==
    [node |-> "Identifier", name |-> name, position |-> position]

FunctionCall(name, args, position) ==
    [node |-> "FunctionCall", name |-> name, args |-> args, position |-> position]

Assignment(name, value, position) ==
    [node |-> "Assignment", name |-> name, value |-> value, position |-> position]

\* What a call holds when it returns None or does not return.
NoNode == [node |-> "None"]

\* str(n) for an int n >= 0.
RECURSIVE str_int(_)
str_int(n) ==
    IF n < 10
    THEN <<<<"0", "1", "2", "3", "4", "5", "6", "7", "8", "9">>[n + 1]>>
    ELSE str_int(n \div 10) \o str_int(n % 10)

\* str(value) for a Literal's value.
str_value(value) ==
    CASE value.type = "int" -> str_int(value.int)
      [] value.type = "float" ->
           str_int(value.int) \o <<".">>
               \o (IF value.text = <<>> THEN <<"0">> ELSE value.text)
      [] OTHER -> value.text

\* __str__ of the expression nodes.
RECURSIVE str(_)
RECURSIVE str_args(_)
str(node) ==
    CASE node.node = "Literal" -> str_value(node.value)
      [] node.node = "BinOp" ->
           <<"(">> \o str(node.lhs) \o <<" ">> \o node.op \o <<" ">>
               \o str(node.rhs) \o <<")">>
      [] node.node = "UnaryOp" ->
           <<"(">> \o node.op \o <<" ">> \o str(node.rhs) \o <<")">>
      [] node.node = "Identifier" -> node.name
      [] node.node = "FunctionCall" ->
           node.name \o <<"(">> \o str_args(node.args) \o <<")">>
      [] node.node = "Assignment" ->
           node.name \o <<" ", "=", " ">> \o str(node.value)

\* ', '.join([str(arg) for arg in args])
str_args(args) ==
    IF args = <<>> THEN <<>>
    ELSE IF Len(args) = 1 THEN str(args[1])
    ELSE str(args[1]) \o <<",", " ">> \o str_args(Tail(args))

---------------------------------------------------------------------------
(* bauble/bauble_parser.py *)
(* A method of the Parser takes the Parser object as `self`, with what has *)
(* been written to sys.stderr as its field stderr, and returns the object, *)
(* the value returned and the exception raised ("" if none).               *)

\* PRECEDENCE_MAP, prefix column (None where the map says None).
PrefixPrecedence(kind) ==
    IF kind \in {"MINUS", "BANG"} THEN 8 ELSE None

\* get_precedence(kind).infix: PRECEDENCE_MAP's infix column, 0 for a kind
\* that is not in the map, None for BANG.
InfixPrecedence(kind) ==
    CASE kind = "EQUAL" -> 1
      [] kind = "OR" -> 2
      [] kind = "AND" -> 3
      [] kind \in {"EQUAL_EQUAL", "BANG_EQUAL"} -> 4
      [] kind \in {"GREATER", "GREATER_EQUAL", "LESS", "LESS_EQUAL"} -> 5
      [] kind \in {"PLUS", "MINUS"} -> 6
      [] kind \in {"STAR", "SLASH"} -> 7
      [] kind = "BANG" -> None
      [] kind \in {"OPEN_PAREN", "DOT"} -> 9
      [] OTHER -> 0

\* The kinds whose infix precedence in PRECEDENCE_MAP is None.
InfixIsNone(kind) == kind \in {"BANG"}

\* The keys of Parser.rules_map.
RuleKinds ==
    {"INTEGER", "FLOAT", "STRING", "FALSE", "TRUE", "NONE", "IDENT", "OPEN_PAREN",
     "PLUS", "MINUS", "STAR", "SLASH", "BANG"}

\* rules_map[kind].prefix, by the handler's name.
RulePrefix(kind) ==
    CASE kind \in {"INTEGER", "FLOAT", "STRING", "FALSE", "TRUE", "NONE"}
           -> "parse_literal"
      [] kind = "IDENT" -> "parse_ident"
      [] kind = "OPEN_PAREN" -> "parse_grouping"
      [] kind \in {"MINUS", "BANG"} -> "parse_unary"
      [] kind \in {"PLUS", "STAR", "SLASH"} -> None

\* rules_map[kind].infix, by the handler's name.
RuleInfix(kind) ==
    IF kind \in {"PLUS", "MINUS", "STAR", "SLASH", "BANG"}
    THEN "parse_binary"
    ELSE None

\* The grave accent of the two messages below, which a TLA+ string cannot hold.
Backtick == "grave accent"

InvalidSyntaxMessage ==
    <<"I", "n", "v", "a", "l", "i", "d", " ", "S", "y", "n", "t", "a",
      "x", ":", " ", "E", "x", "p", "e", "c", "t", "e", "d", " ", "e",
      "x", "p", "r", "e", "s", "s", "i", "o", "n", ",", " ", "f", "o",
      "u", "n", "d", " ">>

ExpectedOpenMessage ==
    <<"E", "x", "p", "e", "c", "t", "e", "d", " ", "t", "o", " ", "f",
      "i", "n", "d", " ", "o", "p", "e", "n", "i", "n", "g", " ", "p",
      "a", "r", "e", "n", "t", "h", "e", "s", "i", "s", " ", Backtick, "(",
      Backtick>>

ExpectedCloseMessage ==
    <<"E", "x", "p", "e", "c", "t", "e", "d", " ", "t", "o", " ", "f",
      "i", "n", "d", " ", "c", "l", "o", "s", "i", "n", "g", " ", "p",
      "a", "r", "e", "n", "t", "h", "e", "s", "i", "s", " ", Backtick, ")",
      Backtick>>

Ok(self, value) == [self |-> self, ret |-> value, raised |-> ""]

Raise(self, name) == [self |-> self, ret |-> NoNode, raised |-> name]

\* The rest of a method after a call: skipped when the call raised.
Try(r, Then(_)) == IF r.raised # "" THEN Raise(r.self, r.raised) ELSE Then(r)

\* Parser.advance
Parser_advance(self) ==
    Let(next_token(self.lexer), LAMBDA r :
        [self |-> [self EXCEPT !.lexer = r.self], ret |-> r.ret, raised |-> r.raised])

\* Parser.peek
Parser_peek(self) == self.lexer.next

\* Parser.emit_error: the diagnostic printed is the message and the token.
\* The last print formats with width " " when column - len(token) >= 1,
\* which str.format rejects with ValueError.
emit_error(self, message, token) ==
    IF token.position.column - Len(token.value) < 1
    THEN Ok([self EXCEPT !.stderr = Append(@, [message |-> message, token |-> token])],
            NoNode)
    ELSE Raise(self, "ValueError")

\* Parser.consume that reads the token after emitting the diagnostic.
Parser_consume_Advances(self, expected, message) ==
    IF Parser_peek(self).kind # expected
    THEN Try(emit_error(self, message, Parser_peek(self)), LAMBDA e :
         Try(Parser_advance(e.self), LAMBDA a : Ok(a.self, NoNode)))
    ELSE Try(Parser_advance(self), LAMBDA a : Ok(a.self, NoNode))

\* Parser.consume
Parser_consume(self, expected, message) ==
    IF Parser_peek(self).kind # expected
    THEN emit_error(self, message, Parser_peek(self))
    ELSE Try(Parser_advance(self), LAMBDA a : Ok(a.self, NoNode))

RECURSIVE parse_expression(_, _)
RECURSIVE parse_expression_loop(_, _, _)
RECURSIVE parse_ident(_)
RECURSIVE parse_function_args(_)
RECURSIVE parse_function_args_loop(_, _)
RECURSIVE parse_grouping(_)
RECURSIVE parse_unary(_)
RECURSIVE parse_binary(_, _)

\* Parser.parse_literal
parse_literal(self) ==
    Try(Parser_advance(self), LAMBDA a :
        Let(a.ret, LAMBDA token :
            IF token.kind = "INTEGER"
            THEN Ok(a.self, Literal(IntValue(token.value), token.position))
            ELSE IF token.kind = "FLOAT"
            THEN Ok(a.self, Literal(FloatValue(token.value), token.position))
            ELSE Ok(a.self, Literal(StrValue(token.value), token.position))))

\* rule.prefix() for the handler named.
CallPrefix(handler, self) ==
    CASE handler = "parse_literal" -> parse_literal(self)
      [] handler = "parse_ident" -> parse_ident(self)
      [] handler = "parse_grouping" -> parse_grouping(self)
      [] handler = "parse_unary" -> parse_unary(self)

\* Parser.parse_expression, `while precedence < get_precedence(...).infix`:
\* int < None raises TypeError, rules_map[kind] raises KeyError for a kind
\* that is not a key, and calling a None infix handler raises TypeError.
parse_expression_loop(self, lhs, precedence) ==
    Let(Parser_peek(self).kind, LAMBDA kind :
        IF InfixIsNone(kind)
        THEN Raise(self, "TypeError")
        ELSE IF precedence < InfixPrecedence(kind)
        THEN IF kind \notin RuleKinds
             THEN Raise(self, "KeyError")
             ELSE IF RuleInfix(kind) = None
             THEN Raise(self, "TypeError")
             ELSE Try(parse_binary(self, lhs), LAMBDA b :
                      parse_expression_loop(b.self, b.ret, precedence))
        ELSE Ok(self, lhs))

\* Parser.parse_expression: rules_map[kind] raises KeyError for a kind that
\* is not a key; with no prefix handler the diagnostic is emitted and then
\* rule.prefix() calls None, which raises TypeError.
parse_expression(self, precedence) ==
    Let(Parser_peek(self), LAMBDA token :
        IF token.kind \notin RuleKinds
        THEN Raise(self, "KeyError")
        ELSE IF RulePrefix(token.kind) = None
        THEN Try(emit_error(self, InvalidSyntaxMessage \o token.value, token),
                 LAMBDA e : Raise(e.self, "TypeError"))
        ELSE Try(CallPrefix(RulePrefix(token.kind), self), LAMBDA l :
                 parse_expression_loop(l.self, l.ret, precedence)))

\* Parser.parse_ident
parse_ident(self) ==
    Try(Parser_advance(self), LAMBDA a :
        Let(a.ret, LAMBDA token :
            IF Parser_peek(a.self).kind = "EQUAL"
            THEN Try(Parser_advance(a.self), LAMBDA e :
                 Try(parse_expression(e.self, 1), LAMBDA v :
                     Ok(v.self, Assignment(token.value, v.ret, token.position))))
            ELSE IF Parser_peek(a.self).kind = "OPEN_PAREN"
            THEN Try(parse_function_args(a.self), LAMBDA f :
                     Ok(f.self, FunctionCall(token.value, f.ret, token.position)))
            ELSE Ok(a.self, Identifier(token.value, token.position))))

\* parse_function_args, the while loop, without the comma test.
parse_function_args_loop_NoComma(self, args) ==
    IF Parser_peek(self).kind # "CLOSE_PAREN"
    THEN Try(parse_expression(self, 1), LAMBDA arg :
             parse_function_args_loop(arg.self, Append(args, arg.ret)))
    ELSE Try(Parser_consume(self, "CLOSE_PAREN", ExpectedCloseMessage), LAMBDA c :
             Ok(c.self, args))

\* parse_function_args, the while loop and what follows it.
parse_function_args_loop(self, args) ==
    IF Parser_peek(self).kind # "CLOSE_PAREN"
    THEN Try(parse_expression(self, 1), LAMBDA arg :
         Try(IF Parser_peek(arg.self).kind = "COMMA"
             THEN Parser_advance(arg.self)
             ELSE Ok(arg.self, NoNode), LAMBDA n :
             parse_function_args_loop(n.self, Append(args, arg.ret))))
    ELSE Try(Parser_consume(self, "CLOSE_PAREN", ExpectedCloseMessage), LAMBDA c :
             Ok(c.self, args))

\* Parser.parse_function_args
parse_function_args(self) ==
    Try(Parser_consume(self, "OPEN_PAREN", ExpectedOpenMessage), LAMBDA c :
        parse_function_args_loop(c.self, <<>>))

\* Parser.parse_grouping with the inner expression parsed at precedence 8.
parse_grouping_Tight(self) ==
    Try(Parser_advance(self), LAMBDA a :
    Try(parse_expression(a.self, 8), LAMBDA expr :
    Try(Parser_consume(expr.self, "CLOSE_PAREN", ExpectedCloseMessage), LAMBDA c :
        Ok(c.self, expr.ret))))

\* Parser.parse_grouping
parse_grouping(self) ==
    Try(Parser_advance(self), LAMBDA a :
    Try(parse_expression(a.self, 1), LAMBDA expr :
    Try(Parser_consume(expr.self, "CLOSE_PAREN", ExpectedCloseMessage), LAMBDA c :
        Ok(c.self, expr.ret))))

\* Parser.parse_unary with the operand parsed at precedence 0.
parse_unary_Loose(self) ==
    Try(Parser_advance(self), LAMBDA op :
    Try(parse_expression(op.self, 0), LAMBDA expr :
        Ok(expr.self, UnaryOp(op.ret.value, expr.ret, op.ret.position))))

\* Parser.parse_unary
parse_unary(self) ==
    Try(Parser_advance(self), LAMBDA op :
    Try(parse_expression(op.self, PrefixPrecedence(op.ret.kind)), LAMBDA expr :
        Ok(expr.self, UnaryOp(op.ret.value, expr.ret, op.ret.position))))

\* Parser.parse_binary with the right operand parsed one level looser.
parse_binary_RightAssoc(self, lhs) ==
    Try(Parser_advance(self), LAMBDA op :
    Try(parse_expression(op.self, InfixPrecedence(op.ret.kind) - 1), LAMBDA rhs :
        Ok(rhs.self, BinOp(op.ret.value, lhs, rhs.ret, lhs.position))))

\* Parser.parse_binary
parse_binary(self, lhs) ==
    Try(Parser_advance(self), LAMBDA op :
    Try(parse_expression(op.self, InfixPrecedence(op.ret.kind)), LAMBDA rhs :
        Ok(rhs.self, BinOp(op.ret.value, lhs, rhs.ret, lhs.position))))

\* The filename label of Parser(source, filename).
FileName == "main.bl"

\* Parser.__init__
Parser(src, filename) ==
    Let(Lexer(src), LAMBDA l :
        [self |-> [source |-> src, lexer |-> l.self, filename |-> filename,
                   ast |-> <<>>, stderr |-> <<>>],
         raised |-> l.raised])

---------------------------------------------------------------------------
(* Source strings a caller can hand to Lexer(source) *)

\* Longest source of LexChars the scanner is run on.
MaxLen == 3

\* One or two characters of every class lex_token tells apart.
LexChars ==
    {" ", "\n", "/", "\"", "=", "!", ">", "<", "(", "a", "1", ".", "@"}

\* All strings over `chars` of length at most n.
RECURSIVE Strings(_, _)
Strings(chars, n) ==
    IF n = 0
    THEN {<<>>}
    ELSE Let(Strings(chars, n - 1), LAMBDA shorter :
             shorter \cup {Append(s, c) : s \in shorter, c \in chars})

\* Whitespace of every kind and the characters of a line comment.
CommentChars == {" ", "\t", "\n", "\r", "/", "a"}

\* Most lexemes of a punctuation-only or keyword-only source.
MaxWords == 2

Punctuation == {"(", ")", "[", "]", "{", "}", ",", ".", ";"}

\* Sequences of at most n lexemes of `words` with `sep` between neighbours.
RECURSIVE Joined(_, _, _)
Joined(words, seps, n) ==
    IF n <= 1
    THEN words
    ELSE Let(Joined(words, seps, n - 1), LAMBDA shorter :
             shorter \cup {s \o sep \o w : s \in shorter, sep \in seps, w \in words})

\* `body` with optional whitespace before and after it.
Padded(bodies) ==
    {lead \o b \o trail : lead \in {<<>>, <<" ">>}, b \in bodies,
                          trail \in {<<>>, <<" ">>, <<"\n">>}}

\* Sources of at most n punctuation characters.
PunctuationSources(n) ==
    Padded(Joined({<<c>> : c \in Punctuation}, {<<>>, <<" ">>}, n))

\* Sources of at most n keywords.
KeywordSources(n) ==
    Padded(Joined({KindValue(k) : k \in KeywordKinds}, {<<" ">>}, n))

\* The sources the scanner is run on: strings of at most len characters and
\* sources of at most n lexemes.
LexSources(len, n) ==
    Strings(LexChars, len) \cup Strings(CommentChars, len)
        \cup PunctuationSources(n) \cup KeywordSources(n)

---------------------------------------------------------------------------
(* The scanner driven by a standalone lexical consumer *)

\* EOF tokens a consumer takes from next_token() before it stops calling.
ExtraCalls == 1

\* The EOF tokens among toks.
EofCount(toks) == Cardinality({i \in DOMAIN toks : toks[i].kind = "EOF"})

Init ==
    /\ source \in LexSources(MaxLen, MaxWords)
    /\ pc = "new"
    /\ lexer = [source |-> source, position |-> 0, line |-> 1, column |-> 1,
                next |-> NoToken]
    /\ tokens = <<>>
    /\ spans = <<>>
    /\ result = NoNode
    /\ stderr = <<>>
    /\ exception = ""
    /\ expected_kind = ""

\* lexer = Lexer(source)
Construct ==
    /\ pc = "new"
    /\ \E r \in {Lexer(source)} :
           /\ lexer' = r.self
           /\ exception' = r.raised
           /\ pc' = IF r.raised # "" THEN "raised" ELSE "ready"
           /\ spans' = IF r.raised # ""
                       THEN spans
                       ELSE <<[start |-> 0, end |-> r.self.position]>>
    /\ UNCHANGED <<source, tokens, result, stderr, expected_kind>>

\* token = lexer.next_token()
NextToken ==
    /\ pc = "ready"
    /\ EofCount(tokens) < ExtraCalls
    /\ \E r \in {next_token(lexer)} :
           /\ lexer' = r.self
           /\ exception' = r.raised
           /\ pc' = IF r.raised # "" THEN "raised" ELSE "ready"
           /\ tokens' = IF r.raised # "" THEN tokens ELSE Append(tokens, r.ret)
           /\ spans' = IF r.raised # ""
                       THEN spans
                       ELSE Append(spans, [start |-> lexer.position,
                                           end |-> r.self.position])
    /\ UNCHANGED <<source, result, stderr, expected_kind>>

Next == Construct \/ NextToken

Spec == Init /\ [][Next]_vars

---------------------------------------------------------------------------
(* Source strings a caller can hand to Parser(source, filename) *)

\* Most tokens of an arithmetic expression.
MaxTokens == 7

\* Most tokens of an arithmetic expression written with spaces.
MaxSpacedTokens == 4

\* Most arguments of a call.
MaxArgs == 2

\* Longest source of ParseChars the parser is run on.
MaxParseLen == 3

Atoms == {"a", "1"}

PrefixOps == {"-", "!"}

BinaryOps == {"+", "-", "*", "/"}

\* Expressions of exactly n tokens: operands (an atom behind prefix
\* operators) with binary operators between them.  One starts with a prefix
\* operator before an expression, or with an atom and a binary operator
\* before an expression, or is an atom.
RECURSIVE ChainsOfLen(_)
ChainsOfLen(n) ==
    IF n = 1
    THEN {<<x>> : x \in Atoms}
    ELSE {<<p>> \o c : p \in PrefixOps, c \in ChainsOfLen(n - 1)}
         \cup (IF n = 2
               THEN {}
               ELSE {<<x, op>> \o c :
                       x \in Atoms, op \in BinaryOps, c \in ChainsOfLen(n - 2)})

\* Expressions of at most n tokens.
RECURSIVE Chains(_)
Chains(n) == IF n = 0 THEN {} ELSE ChainsOfLen(n) \cup Chains(n - 1)

\* The tokens of toks with one space between neighbours.
RECURSIVE Spaced(_)
Spaced(toks) ==
    IF Len(toks) <= 1 THEN toks
    ELSE <<Head(toks), " ">> \o Spaced(Tail(toks))

ArithmeticSources ==
    Chains(MaxTokens) \cup {Spaced(c) : c \in Chains(MaxSpacedTokens)}

\* The texts an argument of a call is drawn from.
ArgTexts ==
    {<<"a">>, <<"1">>, <<"a", "+", "1">>, <<"-", "a">>,
     <<"1", "*", "a", "-", "1">>, <<"g", "(", ")">>,
     <<"g", "(", "a", ",", "1", ")">>}

\* Argument lists of at most n arguments, `sep` between neighbours.
RECURSIVE ArgLists(_, _)
ArgLists(sep, n) ==
    IF n = 0
    THEN {<<>>}
    ELSE Let(ArgLists(sep, n - 1), LAMBDA shorter :
             shorter \cup {IF l = <<>> THEN a ELSE l \o sep \o a :
                             l \in shorter, a \in ArgTexts})

\* f(args), with and without a comma before the closing parenthesis.
CallSources ==
    {<<"f", "(">> \o l \o trail \o <<")">> :
        l \in ArgLists(<<",">>, MaxArgs) \cup ArgLists(<<",", " ">>, MaxArgs),
        trail \in {<<>>, <<",">>}} \ {<<"f", "(", ",", ")">>}

\* Most tokens of the right-hand side of an assignment.
MaxValueTokens == 3

\* What stands before an assignment: nothing, a prefix operator, a left
\* operand with its binary operator, or the target of an outer assignment.
AssignContexts ==
    {<<>>, <<"-">>, <<"!">>, <<"1", "+">>, <<"1", "*">>, <<"a", "=">>}

\* a = value, alone and behind each context.
AssignmentSources ==
    {ctx \o <<"a", "=">> \o c : ctx \in AssignContexts, c \in Chains(MaxValueTokens)}

\* What stands before a parenthesised expression, what closes it and what
\* follows it.
GroupContexts == {<<>>, <<"-">>, <<"!">>, <<"1", "*">>, <<"a", "-">>}

GroupClosers == {<<")">>, <<>>}

GroupSuffixes == {<<>>, <<"*", "a">>, <<"-", "1">>}

\* ( expression ), alone and inside an expression, with and without its
\* closing parenthesis.
GroupingSources ==
    {ctx \o <<"(">> \o c \o close \o suffix :
        ctx \in GroupContexts, c \in Chains(MaxValueTokens),
        close \in GroupClosers, suffix \in GroupSuffixes}

ParseChars == {"a", "1", "+", "!", "(", ")", ",", "=", "."}

\* The sources the parser is run on: the families above and strings of at
\* most len characters.
ParserSources(len) ==
    ArithmeticSources \cup CallSources \cup AssignmentSources
        \cup GroupingSources
        \cup Strings(ParseChars, len)

---------------------------------------------------------------------------
(* The parser driven by a caller: Parser(source, filename).parse_expression() *)

InitParser ==
    /\ source \in ParserSources(MaxParseLen)
    /\ pc = "new"
    /\ lexer = [source |-> source, position |-> 0, line |-> 1, column |-> 1,
                next |-> NoToken]
    /\ tokens = <<>>
    /\ spans = <<>>
    /\ result = NoNode
    /\ stderr = <<>>
    /\ exception = ""
    /\ expected_kind = ""

\* parser = Parser(source, filename)
ParserInit ==
    /\ pc = "new"
    /\ \E r \in {Parser(source, FileName)} :
           /\ lexer' = r.self.lexer
           /\ stderr' = r.self.stderr
           /\ exception' = r.raised
           /\ pc' = IF r.raised # "" THEN "raised" ELSE "ready"
    /\ UNCHANGED <<source, tokens, spans, result, expected_kind>>

\* node = parser.parse_expression()
ParseExpression ==
    /\ pc = "ready"
    /\ \E r \in {parse_expression([source |-> source, lexer |-> lexer,
                                   filename |-> FileName, ast |-> <<>>,
                                   stderr |-> stderr], 0)} :
           /\ lexer' = r.self.lexer
           /\ stderr' = r.self.stderr
           /\ result' = r.ret
           /\ exception' = r.raised
           /\ pc' = IF r.raised # "" THEN "raised" ELSE "done"
    /\ UNCHANGED <<source, tokens, spans, expected_kind>>

\* The kinds the parser hands to consume().
ConsumeKinds == {"OPEN_PAREN", "CLOSE_PAREN"}

\* The message the parser hands to consume() with each kind.
ConsumeMessage(kind) ==
    IF kind = "OPEN_PAREN" THEN ExpectedOpenMessage ELSE ExpectedCloseMessage

\* parser.consume(kind, message)
Consume ==
    /\ pc = "ready"
    /\ \E kind \in ConsumeKinds :
       \E r \in {Parser_consume([source |-> source, lexer |-> lexer,
                                 filename |-> FileName, ast |-> <<>>,
                                 stderr |-> stderr], kind, ConsumeMessage(kind))} :
           /\ expected_kind' = kind
           /\ lexer' = r.self.lexer
           /\ stderr' = r.self.stderr
           /\ exception' = r.raised
           /\ pc' = IF r.raised # "" THEN "raised" ELSE "consumed"
    /\ UNCHANGED <<source, tokens, spans, result>>

NextParser == ParserInit \/ ParseExpression \/ Consume

SpecParser == InitParser /\ [][NextParser]_vars

---------------------------------------------------------------------------
(* What the scanner has produced, against the source *)

\* Every token lex_token() has returned so far: those handed out, then the
\* buffered lookahead.  spans[i] is where the call that made Lexed[i] read.
Lexed == IF lexer.next = NoToken THEN <<>> ELSE Append(tokens, lexer.next)

\* The first k tokens of src: lex_token() applied k times from the start.
RECURSIVE StreamFrom(_, _)
StreamFrom(self, k) ==
    IF k = 0
    THEN <<>>
    ELSE Let(lex_token(self), LAMBDA r :
             IF r.raised # ""
             THEN <<>>
             ELSE <<r.ret>> \o StreamFrom(r.self, k - 1))

TokenStream(src, k) ==
    StreamFrom([source |-> src, position |-> 0, line |-> 1, column |-> 1,
                next |-> NoToken], k)

\* Index of the first non-whitespace character after offset `start`
\* (Len(source) + 1 if there is none): where a token read from `start` begins.
RECURSIVE TokenStart(_)
TokenStart(start) ==
    IF start >= Len(source) THEN Len(source) + 1
    ELSE IF source[start + 1] \in {" ", "\t", "\n", "\r"} THEN TokenStart(start + 1)
    ELSE start + 1

\* Index of the first `"` at or after index q (0 if there is none).
RECURSIVE QuoteFrom(_)
QuoteFrom(q) ==
    IF q > Len(source) THEN 0
    ELSE IF source[q] = "\"" THEN q
    ELSE QuoteFrom(q + 1)

\* A token read from `start` begins with a `"`.
OpensString(start) ==
    TokenStart(start) <= Len(source) /\ source[TokenStart(start)] = "\""

\* Index of the first newline at or after index j (Len(source) + 1 if none).
RECURSIVE LineEnd(_)
LineEnd(j) ==
    IF j > Len(source) \/ source[j] = "\n" THEN j ELSE LineEnd(j + 1)

\* source from index q on is whitespace and `//` line comments only.
RECURSIVE BlankFrom(_)
BlankFrom(q) ==
    IF q > Len(source) THEN TRUE
    ELSE IF source[q] \in {" ", "\t", "\n", "\r"} THEN BlankFrom(q + 1)
    ELSE IF source[q] = "/" /\ q < Len(source) /\ source[q + 1] = "/"
    THEN BlankFrom(LineEnd(q + 2))
    ELSE FALSE

\* src without its whitespace characters.
RECURSIVE StripWhitespace(_)
StripWhitespace(src) ==
    IF src = <<>> THEN <<>>
    ELSE IF Head(src) \in {" ", "\t", "\n", "\r"} THEN StripWhitespace(Tail(src))
    ELSE <<Head(src)>> \o StripWhitespace(Tail(src))

\* The whitespace-separated words of src.
RECURSIVE Words(_, _)
Words(src, word) ==
    IF src = <<>> THEN (IF word = <<>> THEN <<>> ELSE <<word>>)
    ELSE IF Head(src) \in {" ", "\t", "\n", "\r"}
    THEN (IF word = <<>> THEN <<>> ELSE <<word>>) \o Words(Tail(src), <<>>)
    ELSE Words(Tail(src), Append(word, Head(src)))

\* The value fields of the tokens of toks before the first EOF, concatenated.
RECURSIVE JoinValues(_)
JoinValues(toks) ==
    IF toks = <<>> \/ Head(toks).kind = "EOF" THEN <<>>
    ELSE Head(toks).value \o JoinValues(Tail(toks))

PunctuationOnly(src) ==
    /\ \E i \in DOMAIN src : src[i] \in Punctuation
    /\ \A i \in DOMAIN src : src[i] \in Punctuation \cup {" ", "\t", "\n", "\r"}

KeywordOnly(src) ==
    /\ Words(src, <<>>) # <<>>
    /\ \A w \in {Words(src, <<>>)} :
          \A i \in DOMAIN w : \E k \in KeywordKinds : KindValue(k) = w[i]

---------------------------------------------------------------------------
(* Claims about the scanner, checked under Spec *)

\* C1: for every source, Lexer(source) and repeated next_token() calls never
\* raise, and an EOF token has been returned once more calls were made than
\* the source has characters.
C1_EofWithoutRaising ==
    /\ pc # "raised"
    /\ Len(tokens) > Len(source) => \E i \in DOMAIN tokens : tokens[i].kind = "EOF"

\* C2: the tokens returned so far followed by the buffered Lexer.next are the
\* first tokens of the source in source order: the k-th call returned the k-th
\* token and next is the token after them.
C2_OneTokenLookahead ==
    /\ tokens = TokenStream(source, Len(tokens))
    /\ pc = "ready" => Lexed = TokenStream(source, Len(tokens) + 1)

C2_Witness ==
    /\ pc = "ready"
    /\ Len(tokens) = 2
    /\ tokens[1].kind # tokens[2].kind
    /\ lexer.next.kind \notin {tokens[1].kind, tokens[2].kind, "EOF"}

\* C3: for a source of whitespace and `//` line comments only, every token the
\* lexer produces is EOF.
C3_BlankSourceOnlyEof ==
    BlankFrom(1) => \A i \in DOMAIN Lexed : Lexed[i].kind = "EOF"

\* C7: a token that begins with a `"` after which no `"` occurs is an ERROR
\* token holding the unterminated-string message, and the token after it is
\* produced (no exception) and is EOF.
C7_UnterminatedString ==
    \A i \in DOMAIN Lexed :
        (OpensString(spans[i].start) /\ QuoteFrom(TokenStart(spans[i].start) + 1) = 0)
        => /\ Lexed[i].kind = "ERROR"
           /\ Lexed[i].value = UnterminatedMessage
           /\ i < Len(Lexed) => Lexed[i + 1].kind = "EOF"
           /\ i = Len(Lexed) => pc # "raised"

C7_Witness ==
    \E i \in DOMAIN Lexed :
        /\ i > 1
        /\ OpensString(spans[i].start)
        /\ QuoteFrom(TokenStart(spans[i].start) + 1) = 0
        /\ TokenStart(spans[i].start) < Len(source)
        /\ i < Len(Lexed)
        /\ i \in DOMAIN tokens

\* C8: a token that begins with a `"` which a later `"` closes is a STRING
\* token whose value is the characters between the two quotes, and the lexer
\* has read up to and including the closing quote.
C8_ClosedString ==
    \A i \in DOMAIN Lexed :
        LET open == TokenStart(spans[i].start)
            close == QuoteFrom(open + 1)
        IN  (OpensString(spans[i].start) /\ close # 0)
            => /\ Lexed[i].kind = "STRING"
               /\ Lexed[i].value = SubSeq(source, open + 1, close - 1)
               /\ spans[i].end = close

\* C9: a token that begins with `=`, `!`, `>` or `<` is the two-character
\* token, with both characters read, iff the next character is `=`; otherwise
\* it is the one-character token and only that character is read.
C9_MaximalMunch ==
    \A i \in DOMAIN Lexed :
        LET q == TokenStart(spans[i].start)
        IN  (q <= Len(source) /\ source[q] \in {"=", "!", ">", "<"})
            => /\ KindValue(Lexed[i].kind) = Lexed[i].value
               /\ IF q < Len(source) /\ source[q + 1] = "="
                  THEN Lexed[i].value = <<source[q], "=">> /\ spans[i].end = q + 1
                  ELSE Lexed[i].value = <<source[q]>> /\ spans[i].end = q

C9_Witness ==
    /\ Len(tokens) = 2
    /\ tokens[1].value = <<"<", "=">>
    /\ tokens[2].value = <<"=">>
    /\ lexer.next.kind = "EOF"
    /\ Len(source) = 3

\* C10: for a punctuation-only or keyword-only source, whitespace anywhere,
\* lexing does not raise, every token before EOF has the kind whose spelling
\* is its value, and once EOF is produced the values before it concatenate to
\* the source without its whitespace.
C10_ValuesReconstructSource ==
    (PunctuationOnly(source) \/ KeywordOnly(source))
    => /\ pc # "raised"
       /\ \A i \in DOMAIN Lexed :
            Lexed[i].kind # "EOF" => KindValue(Lexed[i].kind) = Lexed[i].value
       /\ (Lexed # <<>> /\ Lexed[Len(Lexed)].kind = "EOF")
          => JoinValues(Lexed) = StripWhitespace(source)

---------------------------------------------------------------------------
(* What the parser has built, against the grammar of the source *)

\* src without its spaces: one character per token for the sources below.
Unspaced(src) == SelectSeq(src, LAMBDA c : c # " ")

\* toks[i] stands where an operand starts.
StartsOperand(toks, i) == i = 1 \/ toks[i - 1] \notin Atoms

\* toks is operands (an atom behind prefix operators) with one binary
\* operator between neighbours.
WellFormed(toks) ==
    /\ toks # <<>>
    /\ toks[Len(toks)] \in Atoms
    /\ \A i \in DOMAIN toks :
         IF StartsOperand(toks, i)
         THEN toks[i] \in Atoms \cup PrefixOps
         ELSE toks[i] \in BinaryOps

HasPrefix(toks) ==
    \E i \in DOMAIN toks : StartsOperand(toks, i) /\ toks[i] \in PrefixOps

\* src is such an expression, written without spaces or with one space
\* between tokens.
IsArithmetic(src) ==
    /\ WellFormed(Unspaced(src))
    /\ src \in {Unspaced(src), Spaced(Unspaced(src))}

\* Index of the last operator of ops that stands between two operands of
\* toks, 0 if there is none.
LastBinary(toks, ops) ==
    Let({i \in DOMAIN toks : toks[i] \in ops /\ ~StartsOperand(toks, i)},
        LAMBDA at : IF at = {} THEN 0
                    ELSE CHOOSE i \in at : \A j \in at : j <= i)

AtomNode(tok) ==
    IF isnumeric(tok)
    THEN Literal(IntValue(<<tok>>), Position(1, 1))
    ELSE Identifier(<<tok>>, Position(1, 1))

\* The tree the grammar gives toks: sums of products of prefixed atoms,
\* sums and products grouped to the left.
RECURSIVE Grouped(_)
RECURSIVE GroupedAt(_, _)
Grouped(toks) ==
    IF LastBinary(toks, {"+", "-"}) # 0
    THEN GroupedAt(toks, LastBinary(toks, {"+", "-"}))
    ELSE IF LastBinary(toks, {"*", "/"}) # 0
    THEN GroupedAt(toks, LastBinary(toks, {"*", "/"}))
    ELSE IF Len(toks) > 1
    THEN UnaryOp(<<Head(toks)>>, Grouped(Tail(toks)), Position(1, 1))
    ELSE AtomNode(toks[1])

GroupedAt(toks, i) ==
    BinOp(<<toks[i]>>, Grouped(SubSeq(toks, 1, i - 1)),
          Grouped(SubSeq(toks, i + 1, Len(toks))), Position(1, 1))

\* The texts between the commas of `rest` that stand outside parentheses;
\* nothing for what follows the last comma when that is empty.
RECURSIVE SplitArgs(_, _, _)
SplitArgs(rest, depth, piece) ==
    IF rest = <<>>
    THEN IF piece = <<>> THEN <<>> ELSE <<piece>>
    ELSE IF Head(rest) = "," /\ depth = 0
    THEN <<piece>> \o SplitArgs(Tail(rest), 0, <<>>)
    ELSE SplitArgs(Tail(rest),
                   depth + (IF Head(rest) = "(" THEN 1 ELSE 0)
                         - (IF Head(rest) = ")" THEN 1 ELSE 0),
                   Append(piece, Head(rest)))

\* Parser(text, filename).parse_expression(1)
ParsedAlone(text) == parse_expression(Parser(text, FileName).self, 1).ret

\* The arguments of the call src, each parsed on its own.
ExpectedArgs(src) ==
    Let(SplitArgs(SubSeq(src, 3, Len(src) - 1), 0, <<>>), LAMBDA pieces :
        [i \in DOMAIN pieces |-> ParsedAlone(pieces[i])])

\* C4: an expression over atoms and the binary operators + - * / parses
\* without raising to the tree that groups * and / tighter than + and - and
\* groups operators of equal binding power to the left, each BinOp holding
\* its operator and both operands, and the whole source is read.
C4_BinaryGrouping ==
    (IsArithmetic(source) /\ ~HasPrefix(Unspaced(source)))
    => /\ pc # "raised"
       /\ pc = "done"
          => /\ result = Grouped(Unspaced(source))
             /\ lexer.next.kind = "EOF"

C4_Witness ==
    /\ pc = "done"
    /\ source = <<"a", "-", "1", "*", "a", "-", "1">>
    /\ result.op = <<"-">>
    /\ result.rhs = AtomNode("1")
    /\ result.lhs.op = <<"-">>
    /\ result.lhs.lhs = AtomNode("a")
    /\ result.lhs.rhs = BinOp(<<"*">>, AtomNode("1"), AtomNode("a"), Position(1, 1))

\* C5: in an expression with a prefix - or !, the prefix operator takes the
\* operand that follows it, itself possibly prefixed, and nothing of a binary
\* operator after it: the result is the grammar's tree, where a prefixed atom
\* is an operand of the products and sums.
C5_UnaryBindsTightest ==
    (IsArithmetic(source) /\ HasPrefix(Unspaced(source)))
    => /\ pc # "raised"
       /\ pc = "done"
          => /\ result = Grouped(Unspaced(source))
             /\ lexer.next.kind = "EOF"

C5_Witness ==
    /\ pc = "done"
    /\ source = <<"-", "a", "+", "1", "*", "-", "a">>
    /\ result = BinOp(<<"+">>,
                      UnaryOp(<<"-">>, AtomNode("a"), Position(1, 1)),
                      BinOp(<<"*">>, AtomNode("1"),
                            UnaryOp(<<"-">>, AtomNode("a"), Position(1, 1)),
                            Position(1, 1)),
                      Position(1, 1))

\* C6: a call f(args) parses without raising or diagnostic to a FunctionCall
\* of f whose arguments are, in source order, the texts between the commas
\* each parsed at precedence 1, with or without a comma before the closing
\* parenthesis, and the closing parenthesis is read.
C6_FunctionCallArguments ==
    source \in CallSources
    => /\ pc # "raised"
       /\ pc = "done"
          => /\ result = FunctionCall(<<"f">>, ExpectedArgs(source), Position(1, 1))
             /\ lexer.next.kind = "EOF"
             /\ lexer.position = Len(source)
             /\ stderr = <<>>

C6_Witness ==
    /\ pc = "done"
    /\ source \in CallSources
    /\ source[Len(source) - 1] = ","
    /\ Len(result.args) = 2
    /\ result.args[1].node = "BinOp"
    /\ result.args[2].node = "FunctionCall"
    /\ Len(result.args[2].args) = 2

\* The lookahead token Parser(src, filename) starts with.
FirstToken(src) == Lexer(src).self.next

\* kind has no prefix handler: rules_map has no entry for it, or the entry's
\* prefix is None.
HasNoPrefixHandler(kind) == kind \notin RuleKinds \/ RulePrefix(kind) = None

\* C11: when parse_expression is called with a lookahead token whose kind
\* has no prefix handler, it returns without raising and the diagnostic
\* "Invalid Syntax: Expected expression, found {token}" has been emitted.
C11_MissingPrefixDiagnosed ==
    (/\ pc \in {"done", "raised"}
     /\ Lexer(source).raised = ""
     /\ HasNoPrefixHandler(FirstToken(source).kind))
    => /\ pc = "done"
       /\ stderr = <<[message |-> InvalidSyntaxMessage \o FirstToken(source).value,
                      token |-> FirstToken(source)]>>

\* No UnaryOp or BinOp of the tree has an Assignment as an operand.
RECURSIVE NoAssignmentOperand(_)
NoAssignmentOperand(node) ==
    CASE node.node = "BinOp" ->
           /\ node.lhs.node # "Assignment"
           /\ node.rhs.node # "Assignment"
           /\ NoAssignmentOperand(node.lhs)
           /\ NoAssignmentOperand(node.rhs)
      [] node.node = "UnaryOp" ->
           /\ node.rhs.node # "Assignment"
           /\ NoAssignmentOperand(node.rhs)
      [] node.node = "Assignment" -> NoAssignmentOperand(node.value)
      [] node.node = "FunctionCall" ->
           \A i \in DOMAIN node.args : NoAssignmentOperand(node.args[i])
      [] OTHER -> TRUE

\* src is an identifier, `=` and a right-hand side.
IsAssignment(src) ==
    /\ Len(src) >= 3
    /\ isidentifier(src[1])
    /\ src[2] = "="
    /\ src[3] # "="

Unparenthesised(src) == \A i \in DOMAIN src : src[i] # "("

\* C12: a source `name = rhs` that parses gives Assignment(name, value) with
\* value the whole right-hand side parsed at precedence 1, and in the tree
\* parsed from a source without parentheses no Assignment is an operand of a
\* UnaryOp or BinOp.
C12_AssignmentLowest ==
    pc = "done"
    => /\ IsAssignment(source)
          => result = Assignment(<<source[1]>>,
                                 ParsedAlone(SubSeq(source, 3, Len(source))),
                                 Position(1, 1))
       /\ Unparenthesised(source) => NoAssignmentOperand(result)

\* The tree is made of BinOp, UnaryOp, Identifier and int Literal nodes only.
RECURSIVE IsArithmeticTree(_)
IsArithmeticTree(node) ==
    CASE node.node = "BinOp" ->
           IsArithmeticTree(node.lhs) /\ IsArithmeticTree(node.rhs)
      [] node.node = "UnaryOp" -> IsArithmeticTree(node.rhs)
      [] node.node = "Identifier" -> TRUE
      [] node.node = "Literal" -> node.value.type = "int"
      [] OTHER -> FALSE

\* The tree without its positions.
RECURSIVE Shape(_)
Shape(node) ==
    CASE node.node = "BinOp" ->
           <<"BinOp", node.op, Shape(node.lhs), Shape(node.rhs)>>
      [] node.node = "UnaryOp" -> <<"UnaryOp", node.op, Shape(node.rhs)>>
      [] node.node = "Identifier" -> <<"Identifier", node.name>>
      [] node.node = "Literal" -> <<"Literal", node.value>>
      [] OTHER -> <<node.node>>

\* Parser(text, filename).parse_expression()
Reparsed(text) == parse_expression(Parser(text, FileName).self, 0)

\* C13: a tree of BinOp, UnaryOp, Identifier and int Literal nodes that
\* parse_expression has returned is, positions aside, the tree that
\* parsing its str() returns, and that parse does not raise.
C13_RoundTrip ==
    (pc = "done" /\ IsArithmeticTree(result))
    => /\ Parser(str(result), FileName).raised = ""
       /\ Reparsed(str(result)).raised = ""
       /\ Shape(Reparsed(str(result)).ret) = Shape(result)

C13_Witness ==
    /\ pc = "done"
    /\ source = <<"-", "(", "a", "+", "1", ")", "*", "a">>
    /\ str(result) = <<"(", "(", "-", " ", "(", "a", " ", "+", " ", "1", ")", ")",
                       " ", "*", " ", "a", ")">>
    /\ Shape(Reparsed(str(result)).ret) = Shape(result)

\* The lookahead token after the first token of src has been read.
SecondToken(src) == next_token(Lexer(src).self).self.next

\* src lexes as far as its second token.
LexesTwoTokens(src) ==
    /\ Lexer(src).raised = ""
    /\ next_token(Lexer(src).self).raised = ""

\* kind has no infix handler: rules_map has no entry for it, or the entry's
\* infix is None.
HasNoInfixHandler(kind) == kind \notin RuleKinds \/ RuleInfix(kind) = None

\* C14: when an integer literal has been parsed as the left operand and the
\* lookahead token has no infix handler or no infix binding power,
\* parse_expression returns that operand without raising and leaves the
\* lookahead token unread.
C14_LoopExitsWithoutInfix ==
    (/\ pc \in {"done", "raised"}
     /\ LexesTwoTokens(source)
     /\ FirstToken(source).kind = "INTEGER"
     /\ \/ HasNoInfixHandler(SecondToken(source).kind)
        \/ InfixIsNone(SecondToken(source).kind))
    => /\ pc = "done"
       /\ result = Literal(IntValue(FirstToken(source).value),
                           FirstToken(source).position)
       /\ lexer.next = SecondToken(source)

\* src with every `//` line comment (up to, not including, the newline)
\* replaced by `instead`; src holds no string literal.
RECURSIVE ReplaceComments(_, _, _)
ReplaceComments(src, in_comment, instead) ==
    IF src = <<>> THEN <<>>
    ELSE IF in_comment
    THEN IF Head(src) = "\n"
         THEN <<"\n">> \o ReplaceComments(Tail(src), FALSE, instead)
         ELSE ReplaceComments(Tail(src), TRUE, instead)
    ELSE IF Len(src) >= 2 /\ src[1] = "/" /\ src[2] = "/"
    THEN instead \o ReplaceComments(Tail(Tail(src)), TRUE, instead)
    ELSE <<Head(src)>> \o ReplaceComments(Tail(src), FALSE, instead)

WithoutComments(src) == ReplaceComments(src, FALSE, <<>>)

HasComment(src) == WithoutComments(src) # src

NoStringLiteral(src) == \A i \in DOMAIN src : src[i] # "\""

\* C15: the tokens produced from a source with `//` comments (and no string
\* literal) are, one by one, the tokens of the same source with the comments
\* removed.
C15_CommentsProduceNoToken ==
    (HasComment(source) /\ NoStringLiteral(source))
    => \A i \in DOMAIN Lexed :
          i <= Len(TokenStream(WithoutComments(source), Len(Lexed)))
          => Lexed[i] = TokenStream(WithoutComments(source), Len(Lexed))[i]

\* The characters of source the lexer has consumed.
Consumed == SubSeq(source, 1, lexer.position)

\* Number of newlines in text.
Newlines(text) == Cardinality({i \in DOMAIN text : text[i] = "\n"})

\* Index of the last newline of text, 0 if it has none.
LastNewline(text) ==
    IF Newlines(text) = 0 THEN 0
    ELSE CHOOSE i \in DOMAIN text :
           text[i] = "\n" /\ \A j \in DOMAIN text : text[j] = "\n" => j <= i

\* C16: after the lexer has consumed a prefix of the source, line is one more
\* than the newlines consumed and column is one more than the characters
\* consumed since the last newline: the 1-based line and column of the next
\* character.
C16_PositionTracking ==
    /\ lexer.line = 1 + Newlines(Consumed)
    /\ lexer.column = 1 + Len(Consumed) - LastNewline(Consumed)

\* What stands between the opening parenthesis of src and its end, or the
\* comma at its end.
Inner(src) ==
    IF src[Len(src)] = ","
    THEN SubSeq(src, 2, Len(src) - 1)
    ELSE SubSeq(src, 2, Len(src))

\* src is ( expression, closed by nothing or by a comma.
MissingClose(src) ==
    /\ Len(src) >= 2
    /\ src[1] = "("
    /\ WellFormed(Inner(src))

\* C17: a consume(kind, message) call whose lookahead token is of that kind
\* emits nothing and leaves the lexer with the next token of the source as
\* its lookahead; any other call appends exactly the diagnostic for the
\* lookahead token and leaves the lexer as it was; neither raises.  And a
\* grouping closed by nothing or by a comma parses to its inner expression
\* with one diagnostic, the unexpected token still the lookahead.
C17_ConsumeFrame ==
    /\ [][(expected_kind = "" /\ expected_kind' # "")
          => /\ pc' = "consumed"
             /\ IF lexer.next.kind = expected_kind'
                THEN /\ stderr' = stderr
                     /\ lexer.next = TokenStream(source, 2)[1]
                     /\ lexer'.next = TokenStream(source, 2)[2]
                ELSE /\ lexer' = lexer
                     /\ stderr' = Append(stderr,
                                         [message |-> ConsumeMessage(expected_kind'),
                                          token |-> lexer.next])]_vars
    /\ []((pc = "done" /\ MissingClose(source))
          => /\ result = Grouped(Inner(source))
             /\ lexer.next.kind
                    = (IF source[Len(source)] = "," THEN "COMMA" ELSE "EOF")
             /\ stderr = <<[message |-> ExpectedCloseMessage, token |-> lexer.next]>>)

C17_Witness ==
    /\ pc = "consumed"
    /\ expected_kind = "CLOSE_PAREN"
    /\ source = <<"(", "a", "+", "1", ")">>
    /\ lexer.next.kind = "OPEN_PAREN"
    /\ lexer.position = 1
    /\ Len(stderr) = 1

=============================================================================
